---------------------------- MODULE Spec2Model ----------------------------
(***************************************************************************)
(* A model of src/books.py: the catalog browser (Books, Rtfm).             *)
(*                                                                         *)
(* Python strings are modelled as sequences of one-character strings, so   *)
(* that split, replace, lower, startswith, "in" and pathlib's stem/suffix  *)
(* are computed the way the code computes them.  A directory tree is a     *)
(* sequence of entries in iteration order.                                 *)
(***************************************************************************)
EXTENDS Integers, Sequences, FiniteSets, TLC

(***************************************************************************)
(* Bounds of the model.                                                    *)
(***************************************************************************)
\* how many invalid lines one Selector prompt may receive
MaxAttempts == 2
\* longest generated directory / file stem of the indexing specification
MaxNameLen == 3

(***************************************************************************)
(* Python str operations.  An operator that reads an argument many times   *)
(* binds it once through a singleton set, {e : x \in {arg}}: the value is  *)
(* computed once, as a Python local is.                                    *)
(***************************************************************************)
\* the element of a one-element set
Only(S) == CHOOSE x \in S : TRUE

\* str.startswith
StartsWith(s, p) ==
    Only({Len(x) >= Len(y) /\ SubSeq(x, 1, Len(y)) = y : x \in {s}, y \in {p}})

\* the operator `t in s` on two strings
Contains(s, t) ==
    Only({(\E i \in 0..(Len(x) - Len(y)) : SubSeq(x, i + 1, i + Len(y)) = y) :
          x \in {s}, y \in {t}})

\* 1-based position of the rightmost occurrence of the character c, 0 when none
RFind(s, c) ==
    Only({(CHOOSE i \in 0..Len(x) :
              /\ i # 0 => x[i] = c
              /\ \A j \in (i + 1)..Len(x) : x[j] # c) : x \in {s}})

\* str.split(sep) scanning s from position i, the current part starting at
\* start: leftmost, non-overlapping occurrences
RECURSIVE SplitFrom(_, _, _, _)
SplitFrom(s, sep, start, i) ==
    IF i + Len(sep) - 1 > Len(s) THEN <<SubSeq(s, start, Len(s))>>
    ELSE IF SubSeq(s, i, i + Len(sep) - 1) = sep
    THEN <<SubSeq(s, start, i - 1)>> \o SplitFrom(s, sep, i + Len(sep), i + Len(sep))
    ELSE SplitFrom(s, sep, start, i + 1)

\* str.split(sep)
Split(s, sep) == Only({SplitFrom(x, y, 1, 1) : x \in {s}, y \in {sep}})

\* str.replace of one character by another
Replace(s, a, b) ==
    Only({[i \in 1..Len(x) |-> IF x[i] = a THEN b ELSE x[i]] : x \in {s}})

\* the upper-case letters of the model's alphabet and their lower-case forms
LowerChar(c) ==
    CASE c = "A" -> "a"
      [] c = "P" -> "p"
      [] c = "D" -> "d"
      [] c = "F" -> "f"
      [] c = "T" -> "t"
      [] OTHER -> c

\* str.lower
Lower(s) == Only({[i \in 1..Len(x) |-> LowerChar(x[i])] : x \in {s}})

\* str(number) for a natural number
Digit(n) == CASE n = 0 -> "0" [] n = 1 -> "1" [] n = 2 -> "2" [] n = 3 -> "3"
              [] n = 4 -> "4" [] n = 5 -> "5" [] n = 6 -> "6" [] n = 7 -> "7"
              [] n = 8 -> "8" [] OTHER -> "9"

RECURSIVE StrNat(_)
StrNat(n) == IF n < 10 THEN <<Digit(n)>> ELSE StrNat(n \div 10) \o <<Digit(n % 10)>>

Max(a, b) == Only({IF x >= y THEN x ELSE y : x \in {a}, y \in {b}})

(***************************************************************************)
(* pathlib.                                                                *)
(***************************************************************************)
Sep == <<"/">>

\* the components of a path string, "" and "." components dropped
PathParts(p) == SelectSeq(Split(p, Sep), LAMBDA c : c # <<>> /\ c # <<".">>)

\* PurePath.name: the final component
PathName(p) ==
    Only({IF parts = <<>> THEN <<>> ELSE parts[Len(parts)] : parts \in {PathParts(p)}})

\* PurePath.suffix of a final component
NameSuffix(name) ==
    Only({IF 1 < i[1] /\ i[1] < Len(i[2]) THEN SubSeq(i[2], i[1], Len(i[2])) ELSE <<>> :
          i \in {<<RFind(n, "."), n>> : n \in {name}}})

\* PurePath.stem of a final component
NameStem(name) ==
    Only({IF 1 < i[1] /\ i[1] < Len(i[2]) THEN SubSeq(i[2], 1, i[1] - 1) ELSE i[2] :
          i \in {<<RFind(n, "."), n>> : n \in {name}}})

\* Path(p).stem
PathStem(p) == NameStem(PathName(p))

\* the working directory of the process
Cwd == <<"/", "w">>

\* dir / name
Join(dir, name) ==
    Only({IF d = <<".">> THEN name
          ELSE IF d = Sep THEN d \o name
          ELSE d \o Sep \o name : d \in {dir}})

\* Path.absolute
Absolute(p) == Only({IF StartsWith(x, Sep) THEN x ELSE Join(Cwd, x) : x \in {p}})

(***************************************************************************)
(* The state.                                                              *)
(***************************************************************************)
VARIABLES
    flow,         \* "Books" or "Rtfm": the class whose run() is executed
    directory,    \* str(self.directory)
    tree,         \* the entries of the directory, in iteration order
    platform,     \* "wsl", "win" or "linux": on_wsl(), os.name
    which,        \* the executables shutil.which resolves
    key,          \* self.key
    search_term,  \* self.search_term
    max_key,      \* self._max_key
    max_num,      \* self._max_num
    pc,           \* "run", "root_prompt", "folder_prompt" or "done"
    depth,        \* how many times run() has called itself
    root_dict,    \* run's local root_dict
    folder_dict,  \* run's local folder_dict
    displayed,    \* the catalog handed to print_root / print_folder last
    val,          \* get_key's local val: the line read last
    sel,          \* what get_key returned last
    attempts,     \* the invalid lines the current prompt has read
    log,          \* the process's observable events, in order
    status        \* "running", "returned", "OSError" or "KeyboardInterrupt"

vars == <<flow, directory, tree, platform, which, key, search_term, max_key,
          max_num, pc, depth, root_dict, folder_dict, displayed, val, sel,
          attempts, log, status>>

\* one observable event: a print, a prompt, a line read, a call, a spawn
Event(ev, text, path) == [ev |-> ev, text |-> text, path |-> path]

\* _NamePath; authors = <<>> stands for None (str.split never returns an empty list)
NamePath(name, path, authors) == [name |-> name, path |-> path, authors |-> authors]

(***************************************************************************)
(* dict, kept as the sequence of its items in insertion order.             *)
(***************************************************************************)
HasKey(d, k) == \E i \in 1..Len(d) : d[i].key = k

Get(d, k) == d[CHOOSE i \in 1..Len(d) : d[i].key = k].value

\* d[k] = v: an existing key keeps its place
DictSet(d, k, v) ==
    Only({IF HasKey(x, y)
          THEN [i \in 1..Len(x) |-> IF x[i].key = y THEN [key |-> y, value |-> z] ELSE x[i]]
          ELSE Append(x, [key |-> y, value |-> z]) :
          x \in {d}, y \in {k}, z \in {v}})

Keys(d) == {d[i].key : i \in 1..Len(d)}

(***************************************************************************)
(* The file system.                                                        *)
(***************************************************************************)
\* the entries of the directory at the absolute path p that is not the root
SubEntries(p) ==
    Only({IF hit = {} THEN <<>> ELSE tree[CHOOSE i \in hit : TRUE].files :
          hit \in {{i \in 1..Len(tree) :
                      /\ tree[i].is_dir
                      /\ Absolute(Join(directory, tree[i].name)) = p}}})

\* Path.iterdir: the entries of the directory at path p, as Path objects
IterDir(p) ==
    Only({[i \in 1..Len(es) |-> [path |-> Join(x, es[i].name), is_dir |-> es[i].is_dir]] :
          x \in {p},
          es \in {IF p = directory \/ p = Absolute(directory)
                  THEN tree ELSE SubEntries(p)}})

\* str(i) of each Path object of es
PathStrs(es) == Only({[i \in 1..Len(x) |-> x[i].path] : x \in {es}})

(***************************************************************************)
(* Books: the indexer.                                                     *)
(***************************************************************************)
SPLIT_MARK == <<"_", "_">>

is_dir_hidden(_dir) == StartsWith(_dir, <<".">>)

_dirs(_dir) ==
    PathStrs(SelectSeq(IterDir(_dir),
                       LAMBDA i : i.is_dir /\ ~is_dir_hidden(i.path)))

is_doc(f) ==
    Lower(NameSuffix(PathName(f))) \in
        {<<".", "p", "d", "f">>, <<".", "d", "j", "v", "u">>, <<".", "e", "p", "u", "b">>}

_files(_dir, _search_term) ==
    Only({PathStrs(SelectSeq(IterDir(_dir),
                             LAMBDA i : /\ ~i.is_dir
                                        /\ is_doc(i.path)
                                        /\ Contains(Lower(PathStem(i.path)), t))) :
          t \in {_search_term}})

\* one pass of get_root_dict's loop, on the directory d; acc = [dict, max, out]
RootStep(acc, d) ==
    Only({IF Len(parts) # 2
          THEN [acc EXCEPT !.out = Append(@, Event("fix_directory", <<>>, d))]
          ELSE [acc EXCEPT
                   !.max = Max(@, Len(parts[2])),
                   !.dict = DictSet(@, parts[2],
                                    NamePath(Replace(PathStem(parts[1]), "_", " "),
                                             Absolute(d), <<>>))] :
          parts \in {Split(d, SPLIT_MARK)}})

\* get_root_dict's loop over the directories ds, from the i-th on
RECURSIVE RootLoop(_, _, _)
RootLoop(ds, i, acc) ==
    IF i > Len(ds) THEN acc
    ELSE Only({RootLoop(ds, i + 1, a) : a \in {RootStep(acc, ds[i])}})

get_root_dict(_dir, _max_key) ==
    Only({RootLoop(ds, 1, [dict |-> <<>>, max |-> _max_key, out |-> <<>>]) :
          ds \in {_dirs(_dir)}})

\* the (_authors, _name) that Books.get_folder_dict takes from a stem; ok is
\* whether the split gave exactly two parts
AuthorsName(stem) ==
    Only({IF Len(parts) = 2
          THEN [ok |-> TRUE, _authors |-> parts[1], _name |-> parts[2]]
          ELSE [ok |-> FALSE, _authors |-> <<>>, _name |-> stem] :
          parts \in {Split(stem, SPLIT_MARK)}})

\* one pass of Books.get_folder_dict's loop, on the number-th file
BooksFolderStep(acc, _file, number) ==
    Only({[dict |-> DictSet(acc.dict, StrNat(number),
                            NamePath(Replace(PathStem(an._name), "_", " "),
                                     Absolute(_file),
                                     IF an._authors # <<>>
                                     THEN Split(an._authors, <<"_">>) ELSE <<>>)),
           max |-> Max(acc.max, Len(StrNat(number))),
           out |-> IF an.ok THEN acc.out
                   ELSE Append(acc.out, Event("fix_file", <<>>, _file))] :
          an \in {AuthorsName(PathStem(_file))}})

\* one pass of Rtfm.get_folder_dict's loop, on the number-th file
RtfmFolderStep(acc, _file, number) ==
    [dict |-> DictSet(acc.dict, StrNat(number),
                      NamePath(Replace(PathStem(_file), "_", " "),
                               Absolute(_file), <<>>)),
     max |-> Max(acc.max, Len(StrNat(number))),
     out |-> acc.out]

\* get_folder_dict's loop over the files fs of the class cls, from the
\* number-th on
RECURSIVE FolderLoop(_, _, _, _)
FolderLoop(cls, fs, number, acc) ==
    IF number > Len(fs) THEN acc
    ELSE Only({FolderLoop(cls, fs, number + 1, a) :
               a \in {IF cls = "Books"
                      THEN BooksFolderStep(acc, fs[number], number)
                      ELSE RtfmFolderStep(acc, fs[number], number)}})

\* get_folder_dict of the class cls
get_folder_dict(cls, _dir, _search_term, _max_num) ==
    Only({FolderLoop(cls, fs, 1, [dict |-> <<>>, max |-> _max_num, out |-> <<>>]) :
          fs \in {_files(_dir, _search_term)}})

(***************************************************************************)
(* Books: the Selector, the notices and the Launcher.                      *)
(***************************************************************************)
\* what get_key has returned: nothing yet, None, or a str
Unset == [kind |-> "unset", s |-> <<>>]
None == [kind |-> "None", s |-> <<>>]
StrVal(v) == [kind |-> "str", s |-> v]

\* Python's truth value of get_key's result, as `if not key` tests it
Truthy(ret) == ret.kind = "str" /\ ret.s # <<>>

\* __str__
ClassStr(cls) == IF cls = "Books" THEN <<"books">> ELSE <<"rtfm">>

\* the cancel token of get_key
CancelToken == <<"q">>

\* a faulty get_key: the catalog is consulted before the cancel token
get_key_KeyFirst(_dict, line) ==
    IF HasKey(_dict, line) THEN [returns |-> TRUE, ret |-> StrVal(line)]
    ELSE IF line = CancelToken THEN [returns |-> TRUE, ret |-> None]
    ELSE [returns |-> FALSE, ret |-> Unset]

\* one pass of get_key's loop on the line read: whether it returns, and what
get_key(_dict, line) ==
    IF line = CancelToken THEN [returns |-> TRUE, ret |-> None]
    ELSE IF HasKey(_dict, line) THEN [returns |-> TRUE, ret |-> StrVal(line)]
    ELSE [returns |-> FALSE, ret |-> Unset]

\* input(_msg): the prompt get_key issues before it blocks
Prompt(cls) == Event("prompt", ClassStr(cls), <<>>)

key_not_found(cls, _key) == Event("key_not_found", ClassStr(cls) \o _key, <<>>)

search_term_no_match(cls, _term) ==
    Event("search_term_no_match", ClassStr(cls) \o _term, <<>>)

XDG_OPEN == <<"xdg-open">>
WIN_PROJECT == <<"C:\\Users\\nvasilas\\Documents\\MEGA">>
CmdExe == <<"cmd.exe">>

\* "/".join(parts), from the i-th part on
RECURSIVE JoinParts(_, _)
JoinParts(parts, i) ==
    IF i > Len(parts) THEN <<>>
    ELSE IF i = Len(parts) THEN parts[i]
    ELSE parts[i] \o Sep \o JoinParts(parts, i + 1)

\* str(_file.relative_to(*_file.parts[:3])) of an absolute path: "/" and two
\* components are dropped; nothing left is "."
RelativeToFirst3(_file) ==
    Only({IF Len(parts) <= 2 THEN <<".">> ELSE JoinParts(parts, 3) :
          parts \in {PathParts(_file)}})

_to_win_format(f) ==
    Only({Replace(IF StartsWith(x, <<".">>) THEN Tail(x) ELSE x, "/", "\\") : x \in {f}})

\* a faulty _open: xdg-open is run without asking shutil.which
_open_Unchecked(_file) ==
    IF platform = "wsl"
    THEN [out |-> <<Event("_open", <<>>, _file),
                    Event("Popen", CmdExe,
                          WIN_PROJECT \o <<"\\">> \o _to_win_format(RelativeToFirst3(_file)))>>,
          status |-> "returned"]
    ELSE IF platform = "win"
    THEN [out |-> <<Event("_open", <<>>, _file), Event("Popen", <<>>, _file)>>,
          status |-> "returned"]
    ELSE [out |-> <<Event("_open", <<>>, _file), Event("Popen", XDG_OPEN, _file)>>,
          status |-> "returned"]

\* _open: the events of the launch and how it ends ("returned" or "OSError")
_open(_file) ==
    LET call == Event("_open", <<>>, _file)
    IN  IF platform = "wsl"
        THEN [out |-> <<call, Event("Popen", CmdExe,
                             WIN_PROJECT \o <<"\\">> \o _to_win_format(RelativeToFirst3(_file)))>>,
              status |-> "returned"]
        ELSE IF platform = "win"
        THEN [out |-> <<call, Event("Popen", <<>>, _file)>>, status |-> "returned"]
        ELSE IF XDG_OPEN \notin which
        THEN [out |-> <<call>>, status |-> "OSError"]
        ELSE [out |-> <<call, Event("Popen", XDG_OPEN, _file)>>, status |-> "returned"]

(***************************************************************************)
(* Books.run and Rtfm.run.                                                 *)
(***************************************************************************)
\* a faulty fallback: the whole directory is indexed without the notice
FallbackSilent(cls, _dir, _term, f1) ==
    IF f1.dict # <<>> THEN f1
    ELSE Only({[dict |-> f2.dict,
                max |-> f2.max,
                out |-> f1.out \o <<Event("get_folder_dict", <<>>, _dir)>> \o f2.out] :
               f2 \in {get_folder_dict(cls, _dir, <<>>, f1.max)}})

\* `if not folder_dict:` on the result f1 of the filtered indexing: the notice
\* and the index of the whole directory
Fallback(cls, _dir, _term, f1) ==
    IF f1.dict # <<>> THEN f1
    ELSE Only({[dict |-> f2.dict,
                max |-> f2.max,
                out |-> f1.out \o <<search_term_no_match(cls, _term),
                                   Event("get_folder_dict", <<>>, _dir)>> \o f2.out] :
               f2 \in {get_folder_dict(cls, _dir, <<>>, f1.max)}})

\* index the documents of _dir with the search term, fall back to the whole
\* directory when nothing matches, display the catalog
IndexAndShow(cls, _dir, _term, _max_num) ==
    Only({[dict |-> f.dict,
           max |-> f.max,
           out |-> <<Event("get_folder_dict", _term, d)>> \o f.out
                   \o <<Event("print_folder", <<>>, d)>>] :
          f \in {Fallback(cls, d, _term, get_folder_dict(cls, d, _term, _max_num)) :
                 d \in {_dir}},
          d \in {_dir}})

\* a faulty lookup: the first entry, whatever the key
SelectedFileFirst(_dict, _key) == _dict[1].value.path

\* _file = folder_dict[key].path
SelectedFile(_dict, _key) == Get(_dict, _key).path

\* a faulty run: self.key is assigned before the result is tested
AfterRootSelectAssignFirst(ret) ==
    IF ~Truthy(ret)
    THEN [key |-> ret.s, pc |-> "done", depth |-> depth, status |-> "returned"]
    ELSE [key |-> ret.s, pc |-> "run", depth |-> depth + 1, status |-> status]

\* what run does with the root Selector's result: return, or set key and recurse
AfterRootSelect(ret) ==
    IF ~Truthy(ret)
    THEN [key |-> key, pc |-> "done", depth |-> depth, status |-> "returned"]
    ELSE [key |-> ret.s, pc |-> "run", depth |-> depth + 1, status |-> status]

\* Books.run, from its call to the first blocking read
BooksRun ==
    /\ pc = "run"
    /\ flow = "Books"
    /\ \E r \in {get_root_dict(directory, max_key)} :
           /\ root_dict' = r.dict
           /\ max_key' = r.max
           /\ IF HasKey(r.dict, key)
              THEN \E f \in {IndexAndShow("Books", Get(r.dict, key).path,
                                          search_term, max_num)} :
                       /\ folder_dict' = f.dict
                       /\ max_num' = f.max
                       /\ displayed' = f.dict
                       /\ log' = log \o r.out \o f.out \o <<Prompt("Books")>>
                       /\ pc' = "folder_prompt"
              ELSE /\ displayed' = r.dict
                   /\ log' = log \o r.out
                                 \o <<key_not_found("Books", key),
                                      Event("print_root", <<>>, directory),
                                      Prompt("Books")>>
                   /\ pc' = "root_prompt"
                   /\ UNCHANGED <<folder_dict, max_num>>
    /\ attempts' = 0
    /\ UNCHANGED <<flow, directory, tree, platform, which, key, search_term,
                   depth, val, sel, status>>

\* Rtfm.run, from its call to the blocking read
RtfmRun ==
    /\ pc = "run"
    /\ flow = "Rtfm"
    /\ \E f \in {IndexAndShow("Rtfm", directory, search_term, max_num)} :
           /\ folder_dict' = f.dict
           /\ max_num' = f.max
           /\ displayed' = f.dict
           /\ log' = log \o f.out \o <<Prompt("Rtfm")>>
    /\ pc' = "folder_prompt"
    /\ attempts' = 0
    /\ UNCHANGED <<flow, directory, tree, platform, which, key, search_term,
                   max_key, depth, root_dict, val, sel, status>>

\* get_key over the root catalog reads one line; run goes on to its return
\* or to the recursive call
RootInput(line) ==
    /\ pc = "root_prompt"
    /\ val' = line
    /\ \E g \in {get_key(root_dict, line)}, read \in {Event("input", <<>>, <<>>)} :
           IF g.returns
           THEN \E a \in {AfterRootSelect(g.ret)} :
                    /\ sel' = g.ret
                    /\ key' = a.key
                    /\ pc' = a.pc
                    /\ depth' = a.depth
                    /\ status' = a.status
                    /\ log' = Append(log, read)
                    /\ UNCHANGED attempts
           ELSE /\ attempts < MaxAttempts
                /\ attempts' = attempts + 1
                /\ log' = log \o <<read, Prompt(flow)>>
                /\ UNCHANGED <<sel, key, pc, depth, status>>
    /\ UNCHANGED <<flow, directory, tree, platform, which, search_term, max_key,
                   max_num, root_dict, folder_dict, displayed>>

\* get_key over the folder catalog reads one line; run goes on to its
\* return or to the launch
FolderInput(line) ==
    /\ pc = "folder_prompt"
    /\ val' = line
    /\ \E g \in {get_key(folder_dict, line)}, read \in {Event("input", <<>>, <<>>)} :
           IF g.returns
           THEN /\ sel' = g.ret
                /\ pc' = "done"
                /\ IF ~Truthy(g.ret)
                   THEN /\ status' = "returned"
                        /\ log' = Append(log, read)
                   ELSE \E o \in {_open(SelectedFile(folder_dict, g.ret.s))} :
                            /\ status' = o.status
                            /\ log' = Append(log, read) \o o.out
                /\ UNCHANGED attempts
           ELSE /\ attempts < MaxAttempts
                /\ attempts' = attempts + 1
                /\ log' = log \o <<read, Prompt(flow)>>
                /\ UNCHANGED <<sel, pc, status>>
    /\ UNCHANGED <<flow, directory, tree, platform, which, key, search_term,
                   max_key, max_num, depth, root_dict, folder_dict, displayed>>

\* a different main block: KeyboardInterrupt is caught and the process exits
\* with status 0
InterruptCaught ==
    /\ pc \in {"root_prompt", "folder_prompt"}
    /\ pc' = "done"
    /\ status' = "returned"
    /\ log' = Append(log, Event("SIGINT", <<>>, <<>>))
    /\ UNCHANGED <<flow, directory, tree, platform, which, key, search_term,
                   max_key, max_num, depth, root_dict, folder_dict, displayed,
                   val, sel, attempts>>

\* an interrupt signal while input() blocks: KeyboardInterrupt is raised in
\* get_key, nothing catches it, and it leaves run and the main block
Interrupt ==
    /\ pc \in {"root_prompt", "folder_prompt"}
    /\ pc' = "done"
    /\ status' = "KeyboardInterrupt"
    /\ log' = Append(log, Event("SIGINT", <<>>, <<>>))
    /\ UNCHANGED <<flow, directory, tree, platform, which, key, search_term,
                   max_key, max_num, depth, root_dict, folder_dict, displayed,
                   val, sel, attempts>>

\* the exit status of the interpreter once run has ended
ExitStatus == IF status = "returned" THEN "success" ELSE "failure"

(***************************************************************************)
(* The directory trees, command lines and typed lines of the model.        *)
(***************************************************************************)
File(name) == [name |-> name, is_dir |-> FALSE]
Dir(name) == [name |-> name, is_dir |-> TRUE]
Collection(name, files) == [name |-> name, is_dir |-> TRUE, files |-> files]
RootFile(name) == [name |-> name, is_dir |-> FALSE, files |-> <<>>]

Pdf == <<".", "p", "d", "f">>

\* a_b__k/{A__t.pdf, b.PDF, c.txt, s/}, m__/{a.pdf}, r.pdf, A_t.epub
Tree1 ==
    << Collection(<<"a", "_", "b", "_", "_", "k">>,
                  << File(<<"A", "_", "_", "t">> \o Pdf),
                     File(<<"b", ".", "P", "D", "F">>),
                     File(<<"c", ".", "t", "x", "t">>),
                     Dir(<<"s">>) >>),
       Collection(<<"m", "_", "_">>, << File(<<"a">> \o Pdf) >>),
       RootFile(<<"r">> \o Pdf),
       RootFile(<<"A", "_", "t", ".", "e", "p", "u", "b">>) >>

\* v.1__k/{}, bad/, .h__h/{a.pdf}, q__q/{a.djvu}, n.txt
Tree2 ==
    << Collection(<<"v", ".", "1", "_", "_", "k">>, <<>>),
       Collection(<<"b", "a", "d">>, <<>>),
       Collection(<<".", "h", "_", "_", "h">>, << File(<<"a">> \o Pdf) >>),
       Collection(<<"q", "_", "_", "q">>,
                  << File(<<"a", ".", "d", "j", "v", "u">>) >>),
       RootFile(<<"n", ".", "t", "x", "t">>) >>

Trees == {Tree1, Tree2}

\* an absolute and a relative root directory
Roots == { <<"/", "h", "/", "u", "/", "r">>, <<"r">> }

\* sys.argv[1] and sys.argv[2]; <<>> also when the argument is absent
Argv1 == { <<>>, <<"k">>, <<"z">>, <<"a">> }
Argv2 == { <<>>, <<"a">>, <<"A">>, <<"z">> }

\* the lines a user may type at a prompt
Inputs == { CancelToken, <<"1">>, <<"2">>, <<"k">>, <<>>, <<"x">>, <<"a">> }

\* the strings over alphabet of length at most n
Strs(alphabet, n) == UNION {[1..m -> alphabet] : m \in 0..n}

\* the state of a constructed object: every field but the file system,
\* the platform and the command line
Constructed ==
    /\ max_key = 0
    /\ max_num = 0
    /\ pc = "run"
    /\ depth = 0
    /\ root_dict = <<>>
    /\ folder_dict = <<>>
    /\ displayed = <<>>
    /\ val = <<>>
    /\ sel = Unset
    /\ attempts = 0
    /\ log = <<>>
    /\ status = "running"

\* after Books(directory, config) or Rtfm(directory, config)
Init ==
    /\ flow \in {"Books", "Rtfm"}
    /\ directory \in Roots
    /\ tree \in Trees
    /\ platform \in {"wsl", "win", "linux"}
    /\ which \in SUBSET {XDG_OPEN, CmdExe}
    /\ \E a1 \in Argv1, a2 \in Argv2 :
          /\ key = a1
          /\ search_term = IF flow = "Rtfm" THEN a1 ELSE a2
    /\ Constructed

Next ==
    \/ BooksRun
    \/ RtfmRun
    \/ \E line \in Inputs : RootInput(line)
    \/ \E line \in Inputs : FolderInput(line)
    \/ Interrupt

Spec == Init /\ [][Next]_vars

\* a line that ends get_key: the cancel token or a key of the catalog
ResolveRoot ==
    \E line \in Inputs : get_key(root_dict, line).returns /\ RootInput(line)
ResolveFolder ==
    \E line \in Inputs : get_key(folder_dict, line).returns /\ FolderInput(line)

\* run is not suspended outside input(), and every prompt eventually reads a
\* line that ends get_key
FairSpec ==
    /\ Init
    /\ [][Next]_vars
    /\ WF_vars(BooksRun)
    /\ WF_vars(RtfmRun)
    /\ WF_vars(ResolveRoot)
    /\ WF_vars(ResolveFolder)

(***************************************************************************)
(* The indexing specification: one generated directory or file name.       *)
(***************************************************************************)
IndexRoots == { <<"/", "r">>, <<"/", "r", "_", "_", "s">>, <<".", ".", "/", "r">> }

\* a root with the one collection name__key holding a.pdf
InitIndexBooks ==
    /\ flow = "Books"
    /\ directory \in IndexRoots
    /\ \E n \in Strs({"a", "_", "."}, MaxNameLen), k \in Strs({"a", "_"}, 1) :
          tree = << Collection(n \o SPLIT_MARK \o k, << File(<<"a">> \o Pdf) >>) >>
    /\ key \in { <<>>, <<"a">>, <<"z">> }
    /\ search_term = <<>>

\* a root with the one file stem.ext
InitIndexRtfm ==
    /\ flow = "Rtfm"
    /\ directory = <<"/", "r">>
    /\ \E stem \in Strs({"a", "A", "_"}, MaxNameLen) \ {<<>>},
          ext \in {Pdf, <<".", "P", "D", "F">>, <<".", "t", "x", "t">>} :
          tree = << RootFile(stem \o ext) >>
    /\ key \in Strs({"a", "A"}, 2)
    /\ search_term = key

InitIndex ==
    /\ InitIndexBooks \/ InitIndexRtfm
    /\ platform = "linux"
    /\ which = {XDG_OPEN}
    /\ Constructed

SpecIndex == InitIndex /\ [][Next]_vars

(***************************************************************************)
(* Reading the log.                                                        *)
(***************************************************************************)
\* the elements of a sequence
Range(q) == {q[i] : i \in 1..Len(q)}

Positions(ev) == {i \in 1..Len(log) : log[i].ev = ev}
Count(ev) == Cardinality(Positions(ev))

\* the calls of get_folder_dict so far, in order
FolderCalls == SelectSeq(log, LAMBDA e : e.ev = "get_folder_dict")

\* the catalog the Selector is prompting for
Prompted == IF pc = "root_prompt" THEN root_dict ELSE folder_dict

\* a step in which get_key reads a line
ReadsLine == pc \in {"root_prompt", "folder_prompt"} /\ status' # "KeyboardInterrupt"

(***************************************************************************)
(* C1: at a prompt, the line "q" makes get_key return None, a line that is *)
(* a key of the catalog it was given (and not "q") makes it return that    *)
(* line, and any other line leaves it prompting: the same prompt is issued *)
(* again and nothing else changes.  It never returns anything but None or  *)
(* a key of that catalog.                                                  *)
(***************************************************************************)
C1_SelectorTransitions ==
    [][ReadsLine =>
          /\ val' = CancelToken => sel' = None /\ pc' # pc
          /\ (val' # CancelToken /\ val' \in Keys(Prompted)) =>
                sel' = StrVal(val') /\ pc' # pc
          /\ (val' # CancelToken /\ val' \notin Keys(Prompted)) =>
                /\ pc' = pc
                /\ attempts' = attempts + 1
                /\ log' = log \o <<Event("input", <<>>, <<>>), log[Len(log)]>>
                /\ log[Len(log)].ev = "prompt"
                /\ UNCHANGED <<flow, directory, tree, platform, which, key,
                               search_term, max_key, max_num, depth, root_dict,
                               folder_dict, displayed, sel, status>>
          /\ pc' # pc => sel' \in {None} \cup {StrVal(k) : k \in Keys(Prompted)}
       ]_vars

\* a key was returned after at least one invalid line
C1_Witness == attempts >= 1 /\ sel.kind = "str" /\ pc = "done" /\ val = sel.s

(***************************************************************************)
(* C2: when indexing the directory with the search term gives an empty     *)
(* catalog, exactly one "no match" notice is printed, before the listing,  *)
(* and the same directory is indexed exactly once more, without the term;  *)
(* when it gives a non-empty catalog there is no notice and no second      *)
(* indexing.                                                               *)
(***************************************************************************)
C2_FallbackOnce ==
    IF FolderCalls = <<>>
    THEN Count("search_term_no_match") = 0 /\ Count("print_folder") = 0
    ELSE \E d \in {FolderCalls[1].path} :
         \E filtered \in {get_folder_dict(flow, d, search_term, 0).dict} :
            /\ FolderCalls[1].text = search_term
            /\ Count("print_folder") = 1
            /\ IF filtered = <<>>
               THEN /\ Count("search_term_no_match") = 1
                    /\ Len(FolderCalls) = 2
                    /\ FolderCalls[2].path = d
                    /\ FolderCalls[2].text = <<>>
                    /\ \A i \in Positions("search_term_no_match"),
                          j \in Positions("print_folder") : i < j
                    /\ displayed = get_folder_dict(flow, d, <<>>, 0).dict
               ELSE /\ Count("search_term_no_match") = 0
                    /\ Len(FolderCalls) = 1
                    /\ displayed = filtered

\* a search term matched nothing and the fallback listing is not empty
C2_Witness ==
    /\ Count("search_term_no_match") = 1
    /\ search_term # <<>>
    /\ displayed # <<>>
    /\ pc = "folder_prompt"

(***************************************************************************)
(* C3: with a key that is not in the root catalog, run prints the "wrong   *)
(* key" notice, then the root catalog, then prompts over it; for every key *)
(* get_key returns, run sets self.key to it and calls itself, and that     *)
(* pass indexes and displays the collection, with no second notice and no  *)
(* second root prompt; on "q" run returns and launches nothing.            *)
(***************************************************************************)
C3_WrongKeyThenRecurse ==
    [][/\ pc' = "root_prompt" /\ pc = "run" =>
             /\ key \notin Keys(root_dict')
             /\ Len(log') >= 3
             /\ log'[Len(log') - 2].ev = "key_not_found"
             /\ log'[Len(log') - 1].ev = "print_root"
             /\ log'[Len(log')].ev = "prompt"
             /\ displayed' = root_dict'
       /\ (ReadsLine /\ pc = "root_prompt" /\ val' # CancelToken
              /\ val' \in Keys(root_dict)) =>
             /\ key' = val'
             /\ depth' = depth + 1
             /\ pc' = "run"
       /\ (pc = "run" /\ depth = 1) =>
             /\ pc' = "folder_prompt"
             /\ Count("key_not_found")' = 1
             /\ Count("print_folder")' = 1
       /\ (ReadsLine /\ pc = "root_prompt" /\ val' = CancelToken) =>
             /\ pc' = "done"
             /\ status' = "returned"
             /\ Count("_open")' = 0
       ]_vars

(***************************************************************************)
(* C4: the Launcher is called at most once, right after get_key over the   *)
(* folder catalog returned a key, with the path stored under that key in   *)
(* the folder catalog displayed last; never after a cancellation, never    *)
(* with the path of a collection directory.                                *)
(***************************************************************************)
C4_LaunchSelected ==
    /\ Count("_open") <= 1
    /\ Count("Popen") <= 1
    /\ \A j \in Positions("Popen") : \E i \in Positions("_open") : i < j
    /\ \A i \in Positions("_open") :
          /\ pc = "done"
          /\ sel.kind = "str"
          /\ i > 1 /\ log[i - 1].ev = "input"
          /\ Count("print_folder") = 1
          /\ \A r \in Positions("print_root"), f \in Positions("print_folder") : r < f
          /\ HasKey(displayed, sel.s)
          /\ log[i].path = Get(displayed, sel.s).path
          /\ \A c \in 1..Len(root_dict) : log[i].path # root_dict[c].value.path
    /\ (pc = "done" /\ sel = None) => Count("_open") = 0

\* the second document of a two-document listing was launched
C4_Witness ==
    /\ Count("_open") = 1
    /\ Len(displayed) = 2
    /\ sel = StrVal(<<"2">>)

(***************************************************************************)
(* C5: when every prompt eventually reads "q" or a key of its catalog,     *)
(* every run ends, in one of three ways: a return after a cancellation, a  *)
(* return after a launch, or an error that leaves run; and run calls       *)
(* itself at most once.                                                    *)
(***************************************************************************)
Cancelled == status = "returned" /\ sel = None /\ Count("_open") = 0
Launched == status = "returned" /\ sel.kind = "str" /\ Count("Popen") = 1
Failed == status \in {"OSError", "KeyboardInterrupt"}

C5_EndsInOneOfThreeWays ==
    /\ <>(pc = "done")
    /\ [](pc = "done" => (Cancelled \/ Launched \/ Failed))
    /\ [](depth <= 1)

\* the parts of C5 that the code satisfies: every run ends, and run calls
\* itself at most once
C5_Terminates == <>(pc = "done")
C5_RecursesOnce == depth <= 1

Opener == IF platform = "wsl" THEN CmdExe ELSE XDG_OPEN

C7_MissingOpenerFails ==
    (Count("_open") > 0 /\ platform \in {"wsl", "linux"} /\ Opener \notin which) =>
        /\ status = "OSError"
        /\ Count("Popen") = 0
        /\ ExitStatus = "failure"

(***************************************************************************)
(* C7, amended: when a launch is attempted on native Linux/Unix and        *)
(* XDG_OPEN is not on the search path, _open raises OSError, nothing is    *)
(* spawned and run ends in failure.                                        *)
(***************************************************************************)
C7_MissingXdgOpenFails ==
    (Count("_open") > 0 /\ platform = "linux" /\ XDG_OPEN \notin which) =>
        /\ status = "OSError"
        /\ Count("Popen") = 0
        /\ ExitStatus = "failure"
        /\ log[Len(log)].ev = "_open"

\* a launch was attempted on Linux without xdg-open
C7_Witness == Count("_open") = 1 /\ platform = "linux" /\ XDG_OPEN \notin which

(***************************************************************************)
(* C8: a document with an allowed extension is in the catalog indexed with *)
(* the search term exactly when the lower-cased term is a substring of its *)
(* lower-cased stem.                                                       *)
(***************************************************************************)
\* the catalog the first, filtered indexing returned
Filtered == IF Count("search_term_no_match") > 0 THEN <<>> ELSE folder_dict

C8_CaseInsensitiveFilter ==
    FolderCalls # <<>> =>
        \A f \in {e \in Range(IterDir(FolderCalls[1].path)) : ~e.is_dir /\ is_doc(e.path)} :
            (\E i \in 1..Len(Filtered) : Filtered[i].value.path = Absolute(f.path))
                <=> Contains(Lower(PathStem(f.path)), Lower(search_term))

(***************************************************************************)
(* C9: for every visible subdirectory of the root named name__key, with    *)
(* one double underscore, the root catalog has under key an entry whose    *)
(* name is name with "_" replaced by " " and whose path is the absolute    *)
(* path of the subdirectory.                                               *)
(***************************************************************************)
\* the places where a double underscore starts in s
Marks(s) == {i \in 1..(Len(s) - 1) : s[i] = "_" /\ s[i + 1] = "_"}

C9_RootEntryPerCollection ==
    (flow = "Books" /\ pc # "run") =>
        \A e \in {t \in Range(tree) : t.is_dir /\ Cardinality(Marks(t.name)) = 1
                                      /\ t.name[1] # "."} :
            \E m \in Marks(e.name) :
                /\ HasKey(root_dict, SubSeq(e.name, m + 2, Len(e.name)))
                /\ Get(root_dict, SubSeq(e.name, m + 2, Len(e.name))) =
                      NamePath([i \in 1..(m - 1) |->
                                   IF e.name[i] = "_" THEN " " ELSE e.name[i]],
                               Absolute(Join(directory, e.name)),
                               <<>>)

(***************************************************************************)
(* C10: self.key changes only when get_key over the root catalog returns   *)
(* a key, and then to that key; self.search_term never changes.            *)
(***************************************************************************)
C10_SelectionStateFrame ==
    [][/\ search_term' = search_term
       /\ key' # key =>
             /\ pc = "root_prompt"
             /\ sel' = StrVal(key')
             /\ val' = key'
             /\ key' \in Keys(root_dict)
       ]_vars

\* the key typed at the root prompt replaced an unknown key, with a search term
C10_Witness ==
    /\ depth = 1
    /\ key = sel.s
    /\ key \in Keys(root_dict)
    /\ search_term # <<>>
    /\ pc = "folder_prompt"

=============================================================================
